---- MODULE Spec2Model ----
(***************************************************************************)
(* A model of pytorch/libs/nnet/components.py: the layers TdnnAffine,      *)
(* TdnnfBlock, StatisticsPooling and ContextDropout.                       *)
(*                                                                         *)
(* The state is the layer object a client holds (`module`) and the outcome *)
(* of the last forward call on it (`call`).  A tensor is its shape (a      *)
(* sequence of sizes) and, where the values matter (StatisticsPooling),    *)
(* its elements in row-major order.  Frame indices are 0-based as in the   *)
(* source; sequences are 1-based, so context[index] of the source is       *)
(* context[index + 1] here.                                                *)
(***************************************************************************)
EXTENDS Integers, Sequences, FiniteSets

VARIABLES module, call

vars == <<module, call>>

(* ------------------------------ bounds --------------------------------- *)

\* input_dim, output_dim and inner_size range over 1..MaxDim
MaxDim == 2
\* every size of an input shape ranges over 0..MaxSize
MaxSize == 2
\* context offsets range over -MaxCtx..MaxCtx
MaxCtx == 1
\* a context list has at most MaxContextLen entries
MaxContextLen == 3
\* an input tensor whose values are modelled has at most MaxNumel elements
MaxNumel == 4

Dims == 1 .. MaxDim
\* subsampling factors (conv1d needs a positive stride)
Strides == {1, 2}
\* element values of an input tensor
Values == {0, 1}

\* [samples, frames-dim, frames]
Shapes3 == [1 .. 3 -> 0 .. MaxSize]

\* the 3-dimensional shapes, the same without the samples dimension, and the
\* same with one more leading dimension
InputShapes ==
    Shapes3 \cup {Tail(shape) : shape \in Shapes3} \cup {<<1>> \o shape : shape \in Shapes3}

Contexts == UNION {[1 .. n -> (-MaxCtx) .. MaxCtx] : n \in 0 .. MaxContextLen}

(* ------------------------------ helpers -------------------------------- *)

\* Python's None
None == [none |-> TRUE]

\* the object before any attribute is assigned
NoAttrs == <<>>

NoModule == [class |-> "None"]

NoCall == [status |-> "none"]

\* an exception leaving forward: nothing is returned
Raise(exc, inputs) == [status |-> exc, inputs |-> inputs, outputs |-> None]

Return(inputs, outputs) == [status |-> "ok", inputs |-> inputs, outputs |-> outputs]

(* ------------------------------ TdnnAffine ----------------------------- *)

\* (mutant) the check with > for >=: duplicated values pass
ContextInvalid_NoDupCheck(context) ==
    \E index \in 0 .. Len(context) - 2 : context[index + 1] > context[index + 2]

\* the loop of __init__ that ends in exit()
ContextInvalid(context) ==
    \E index \in 0 .. Len(context) - 2 : context[index + 1] >= context[index + 2]

LeftContext(context) == IF context[1] < 0 THEN context[1] ELSE 0

RightContext(context) == IF context[Len(context)] > 0 THEN context[Len(context)] ELSE 0

TotContext(left_context, right_context) == right_context - left_context + 1

InContext(index, context) == \E i \in 1 .. Len(context) : context[i] = index

\* the mask of shape [1, 1, tot_context], or None when no frame is skipped
Mask(context, left_context, right_context) ==
    IF Len(context) # TotContext(left_context, right_context)
    THEN [data |-> [j \in 1 .. TotContext(left_context, right_context) |->
                       IF InContext(left_context + j - 1, context) THEN 1 ELSE 0]]
    ELSE None

\* the attributes assigned before left_context is computed
TdnnAffineArgsAttrs(a) ==
    [input_dim |-> a.input_dim, output_dim |-> a.output_dim, context |-> a.context,
     bool_bias |-> a.bias, pad |-> a.pad, norm_w |-> a.norm_w, norm_f |-> a.norm_f,
     stride |-> a.subsampling_factor]

\* the object a completed __init__ leaves
TdnnAffineAttrs(a) ==
    LET left_context == LeftContext(a.context)
        right_context == RightContext(a.context)
        tot_context == TotContext(left_context, right_context)
    IN  [input_dim |-> a.input_dim, output_dim |-> a.output_dim, context |-> a.context,
         bool_bias |-> a.bias, pad |-> a.pad, norm_w |-> a.norm_w,
         norm_f |-> IF tot_context > 1 /\ a.norm_f THEN FALSE ELSE a.norm_f,
         stride |-> a.subsampling_factor,
         left_context |-> left_context, right_context |-> right_context,
         tot_context |-> tot_context,
         weight |-> [shape |-> <<a.output_dim, a.input_dim, tot_context>>],
         bias |-> IF a.bias THEN [shape |-> <<a.output_dim>>] ELSE None,
         mask |-> Mask(a.context, left_context, right_context),
         selected_device |-> FALSE]

\* TdnnAffine.__init__: exit() on an unsorted context, IndexError at
\* context[0] on an empty one, the complete object otherwise
TdnnAffine_init(a) ==
    IF ContextInvalid(a.context)
    THEN [class |-> "TdnnAffine", status |-> "SystemExit", args |-> a, self |-> NoAttrs]
    ELSE IF Len(a.context) = 0
    THEN [class |-> "TdnnAffine", status |-> "IndexError", args |-> a,
          self |-> TdnnAffineArgsAttrs(a)]
    ELSE [class |-> "TdnnAffine", status |-> "constructed", args |-> a,
          self |-> TdnnAffineAttrs(a)]

\* (mutant) the padding applied whatever self.pad says
F_pad_Always(self, shape) ==
    [shape EXCEPT ![3] = @ + (-self.left_context) + self.right_context]

\* if self.pad: inputs = F.pad(inputs, (-left_context, right_context))
F_pad(self, shape) ==
    IF self.pad
    THEN [shape EXCEPT ![3] = @ + (-self.left_context) + self.right_context]
    ELSE shape

\* filters = weight * mask: the kernel columns the mask leaves non-zero
FilterColumns(self) ==
    {k \in 0 .. self.tot_context - 1 : self.mask = None \/ self.mask.data[k + 1] = 1}

\* (mutant) the output frames counted without the last window
ConvFrames_NoPlusOne(frames, kernel_size, stride) == (frames - kernel_size) \div stride

\* number of output frames of F.conv1d with padding 0 and dilation 1
ConvFrames(frames, kernel_size, stride) == (frames - kernel_size) \div stride + 1

\* the frames of the unpadded input that output frame t of conv1d reads
\* through a non-zero kernel column (padded frames are constant 0)
ReceptiveField(self, frames, t) ==
    LET pad_left == IF self.pad THEN -self.left_context ELSE 0
    IN  {t * self.stride + k - pad_left : k \in FilterColumns(self)} \cap (0 .. frames - 1)

\* TdnnAffine.forward on an input of the given shape: the outcome and the
\* value of self.selected_device afterwards
TdnnAffine_forward(self, shape) ==
    IF Len(shape) # 3
    THEN [result |-> Raise("AssertionError", shape), selected_device |-> self.selected_device]
    ELSE IF shape[2] # self.input_dim
    THEN [result |-> Raise("AssertionError", shape), selected_device |-> self.selected_device]
    ELSE IF F_pad(self, shape)[3] < self.tot_context
    THEN [result |-> Raise("AssertionError", shape), selected_device |-> self.selected_device]
    ELSE LET padded == F_pad(self, shape)
             out_frames == ConvFrames(padded[3], self.tot_context, self.stride)
         IN  [result |-> Return(shape,
                  [shape |-> <<shape[1], self.output_dim, out_frames>>,
                   field |-> [t \in 0 .. out_frames - 1 |-> ReceptiveField(self, shape[3], t)]]),
              selected_device |-> IF ~self.selected_device /\ self.mask # None
                                  THEN TRUE ELSE self.selected_device]

TdnnAffineArgs ==
    [input_dim : Dims, output_dim : {MaxDim}, context : Contexts, bias : BOOLEAN,
     pad : BOOLEAN, norm_w : {FALSE}, norm_f : {FALSE}, subsampling_factor : Strides]

TdnnAffineInit ==
    /\ module = NoModule
    /\ \E a \in TdnnAffineArgs : module' = TdnnAffine_init(a)
    /\ call' = NoCall

TdnnAffineForward ==
    /\ module.class = "TdnnAffine"
    /\ module.status = "constructed"
    /\ \E shape \in InputShapes :
          LET r == TdnnAffine_forward(module.self, shape)
          IN  /\ call' = r.result
              /\ module' = [module EXCEPT !.self.selected_device = r.selected_device]

(* ------------------------------ TdnnfBlock ----------------------------- *)

\* TdnnfBlock.__init__ assigns factor1 and factor2 and nothing else
TdnnfBlock_init(a) ==
    LET context_factor1 == IF a.context_size > 0 THEN <<-a.context_size, 0>> ELSE <<0>>
        context_factor2 == IF a.context_size > 0 THEN <<0, a.context_size>> ELSE <<0>>
        factor1 == TdnnAffine_init(
            [input_dim |-> a.input_dim, output_dim |-> a.inner_size,
             context |-> context_factor1, bias |-> FALSE, pad |-> a.pad,
             norm_w |-> FALSE, norm_f |-> FALSE, subsampling_factor |-> 1])
        factor2 == TdnnAffine_init(
            [input_dim |-> a.inner_size, output_dim |-> a.output_dim,
             context |-> context_factor2, bias |-> TRUE, pad |-> a.pad,
             norm_w |-> FALSE, norm_f |-> FALSE, subsampling_factor |-> 1])
    IN  [class |-> "TdnnfBlock", status |-> "constructed", args |-> a,
         self |-> [factor1 |-> factor1.self, factor2 |-> factor2.self]]

\* factor2(factor1(inputs)): an exception of factor1 leaves before factor2 runs
TdnnfBlock_factors(self, shape) ==
    LET r1 == TdnnAffine_forward(self.factor1, shape)
    IN  IF r1.result.status # "ok"
        THEN [result |-> r1.result, selected1 |-> r1.selected_device,
              selected2 |-> self.factor2.selected_device]
        ELSE LET r2 == TdnnAffine_forward(self.factor2, r1.result.outputs.shape)
             IN  IF r2.result.status # "ok"
                 THEN [result |-> Raise(r2.result.status, shape),
                       selected1 |-> r1.selected_device, selected2 |-> r2.selected_device]
                 ELSE [result |-> Return(shape,
                          [shape |-> r2.result.outputs.shape,
                           field |-> [t \in DOMAIN r2.result.outputs.field |->
                                        UNION {r1.result.outputs.field[u] :
                                                 u \in r2.result.outputs.field[t]}]]),
                       selected1 |-> r1.selected_device, selected2 |-> r2.selected_device]

\* TdnnfBlock.forward: self.input_dim is read from the object's attributes;
\* torch.nn.Module.__getattr__ raises AttributeError for a name that is no
\* attribute, parameter, buffer or submodule
TdnnfBlock_forward(self, shape) ==
    IF Len(shape) # 3
    THEN [result |-> Raise("AssertionError", shape),
          selected1 |-> self.factor1.selected_device,
          selected2 |-> self.factor2.selected_device]
    ELSE IF "input_dim" \notin DOMAIN self
    THEN [result |-> Raise("AttributeError", shape),
          selected1 |-> self.factor1.selected_device,
          selected2 |-> self.factor2.selected_device]
    ELSE IF shape[2] # self.input_dim
    THEN [result |-> Raise("AssertionError", shape),
          selected1 |-> self.factor1.selected_device,
          selected2 |-> self.factor2.selected_device]
    ELSE TdnnfBlock_factors(self, shape)

TdnnfBlockArgs ==
    [input_dim : Dims, output_dim : Dims, inner_size : Dims,
     context_size : 0 .. MaxCtx, pad : BOOLEAN]

TdnnfBlockInit ==
    /\ module = NoModule
    /\ \E a \in TdnnfBlockArgs : module' = TdnnfBlock_init(a)
    /\ call' = NoCall

TdnnfBlockForward ==
    /\ module.class = "TdnnfBlock"
    /\ \E shape \in InputShapes :
          LET r == TdnnfBlock_forward(module.self, shape)
          IN  /\ call' = r.result
              /\ module' = [module EXCEPT !.self.factor1.selected_device = r.selected1,
                                          !.self.factor2.selected_device = r.selected2]

(* --------------------------- StatisticsPooling ------------------------- *)

\* eps = 1.0e-10 = 1 / (EpsInvSqrt * EpsInvSqrt)
EpsInvSqrt == 100000

RECURSIVE Numel(_)
Numel(shape) == IF shape = <<>> THEN 1 ELSE Head(shape) * Numel(Tail(shape))

RECURSIVE SumSeq(_)
SumSeq(seq) == IF seq = <<>> THEN 0 ELSE Head(seq) + SumSeq(Tail(seq))

\* inputs[s, c, t] of a 3-dimensional tensor stored in row-major order
At(inputs, s, c, t) == inputs.data[(s * inputs.shape[2] + c) * inputs.shape[3] + t + 1]

\* inputs[s, c, :] as a sequence
Row(inputs, s, c) == [i \in 1 .. inputs.shape[3] |-> At(inputs, s, c, i - 1)]

\* (mutant) output_dim set to 2 * input_dim whatever stddev says
StatisticsPooling_init_AlwaysDouble(a) ==
    [class |-> "StatisticsPooling", status |-> "constructed", args |-> a,
     self |-> [stddev |-> a.stddev, input_dim |-> a.input_dim,
               output_dim |-> 2 * a.input_dim,
               eps |-> [inv_sqrt |-> EpsInvSqrt], unbiased |-> a.unbiased]]

\* StatisticsPooling.__init__ (eps keeps its default)
StatisticsPooling_init(a) ==
    [class |-> "StatisticsPooling", status |-> "constructed", args |-> a,
     self |-> [stddev |-> a.stddev, input_dim |-> a.input_dim,
               output_dim |-> IF a.stddev THEN 2 * a.input_dim ELSE a.input_dim,
               eps |-> [inv_sqrt |-> EpsInvSqrt], unbiased |-> a.unbiased]]

get_output_dim(self) == self.output_dim

\* inputs.sum(dim=2) / counts at [s, c], as the fraction num / den
\* (den = 0 for an input of no frames: the quotient is nan)
Mean(inputs, s, c) ==
    [op |-> "mean", num |-> SumSeq(Row(inputs, s, c)), den |-> inputs.shape[3],
     clamped |-> FALSE]

\* var < eps, for the fraction num / den with num >= 0 and den > 0
BelowEps(num, den, eps) ==
    num = 0 \/ ((den \div num) \div eps.inv_sqrt) >= eps.inv_sqrt

\* sqrt(clamp(sum((inputs - mean)**2, dim=2) / counts, min=eps)) at [s, c]:
\* num / den is the variance, clamped says that eps replaces it
\* (den = 0 for an input of no frames: the variance is nan and stays nan)
Std(self, inputs, s, c) ==
    LET n == inputs.shape[3]
        counts == IF self.unbiased /\ n > 1 THEN n - 1 ELSE n
        total == SumSeq(Row(inputs, s, c))
        sq == SumSeq([i \in 1 .. n |-> (n * At(inputs, s, c, i - 1) - total)
                                       * (n * At(inputs, s, c, i - 1) - total)])
    IN  [op |-> "sqrt", num |-> sq, den |-> n * n * counts,
         clamped |-> n > 0 /\ BelowEps(sq, n * n * counts, self.eps)]

\* torch.cat((mean, std), dim=1), both of shape [samples, input_dim, 1]
CatMeanStd(self, inputs, s, j) ==
    IF j < inputs.shape[2]
    THEN Mean(inputs, s, j)
    ELSE Std(self, inputs, s, j - inputs.shape[2])

\* StatisticsPooling.forward; the output is [shape, data] with data[s][j]
\* the element [s, j, 0]
StatisticsPooling_forward(self, inputs) ==
    IF Len(inputs.shape) # 3
    THEN Raise("AssertionError", inputs)
    ELSE IF inputs.shape[2] # self.input_dim
    THEN Raise("AssertionError", inputs)
    ELSE IF self.stddev
    THEN Return(inputs,
            [shape |-> <<inputs.shape[1], inputs.shape[2] + inputs.shape[2], 1>>,
             data |-> [s \in 0 .. inputs.shape[1] - 1 |->
                        [j \in 0 .. 2 * inputs.shape[2] - 1 |->
                           CatMeanStd(self, inputs, s, j)]]])
    ELSE Return(inputs,
            [shape |-> <<inputs.shape[1], inputs.shape[2], 1>>,
             data |-> [s \in 0 .. inputs.shape[1] - 1 |->
                        [j \in 0 .. inputs.shape[2] - 1 |-> Mean(inputs, s, j)]]])

InputTensors ==
    UNION {{[shape |-> shape, data |-> data] : data \in [1 .. Numel(shape) -> Values]} :
             shape \in {sh \in InputShapes : Numel(sh) <= MaxNumel}}

StatisticsPoolingArgs == [input_dim : Dims, stddev : BOOLEAN, unbiased : BOOLEAN]

StatisticsPoolingInit ==
    /\ module = NoModule
    /\ \E a \in StatisticsPoolingArgs : module' = StatisticsPooling_init(a)
    /\ call' = NoCall

StatisticsPoolingForward ==
    /\ module.class = "StatisticsPooling"
    /\ \E inputs \in InputTensors : call' = StatisticsPooling_forward(module.self, inputs)
    /\ UNCHANGED module

(* ----------------------------- ContextDropout -------------------------- *)

\* dropout probabilities, in percent
Probabilities == {0, 50, 100}

\* the names bound at module level: the imports and the classes
ModuleGlobals ==
    {"np", "torch", "F", "Nonlinearity", "to_device", "utils",
     "TdnnAffine", "TdnnfBlock", "GruAffine", "SoftmaxAffineLayer",
     "_BaseActivationBatchNorm", "ReluBatchNormTdnnLayer", "ReluBatchNormTdnnfLayer",
     "StatisticsPooling", "AttentionAlphaComponent", "AttentiveStatisticsPooling",
     "LDEPooling", "ImportantScale", "ContextDropout", "AdaptivePCMN", "SEBlock"}

ContextDropout_init(a) ==
    [class |-> "ContextDropout", status |-> "constructed", args |-> a,
     self |-> [dropout2d |-> [p |-> a.p]]]

\* x.transpose(1, 2) of a shape
Transpose12(shape) == [shape EXCEPT ![2] = shape[3], ![3] = shape[2]]

\* ContextDropout.forward(self, intputs): the body reads the name `inputs`,
\* which is looked up in the locals, then in the module's globals (no
\* builtin has this name); an unbound name raises NameError
ContextDropout_forward(self, intputs) ==
    LET locals == {"self", "intputs"}
    IN  IF "inputs" \notin locals \cup ModuleGlobals
        THEN Raise("NameError", intputs)
        ELSE Return(intputs, [shape |-> Transpose12(Transpose12(intputs))])

ContextDropoutInit ==
    /\ module = NoModule
    /\ \E p \in Probabilities : module' = ContextDropout_init([p |-> p])
    /\ call' = NoCall

ContextDropoutForward ==
    /\ module.class = "ContextDropout"
    /\ \E intputs \in InputShapes : call' = ContextDropout_forward(module.self, intputs)
    /\ UNCHANGED module

(* ------------------------------ system --------------------------------- *)


Init ==
    /\ module = NoModule
    /\ call = NoCall

Next ==
    \/ TdnnAffineInit
    \/ TdnnAffineForward
    \/ TdnnfBlockInit
    \/ TdnnfBlockForward
    \/ StatisticsPoolingInit
    \/ StatisticsPoolingForward
    \/ ContextDropoutInit
    \/ ContextDropoutForward

Spec == Init /\ [][Next]_vars

(* ------------------------------ properties ----------------------------- *)

\* a forward call of the layer of the given class has been made
Called(class) == module.class = class /\ call.status # "none"

\* C1: TdnnAffine.forward fails with an AssertionError, returning nothing,
\* when the input is not 3-dimensional, or its dimension 1 differs from
\* input_dim, or its frames after the optional padding are fewer than
\* tot_context = right_context - left_context + 1; every other input passes
\* all assertions.
C1_ForwardAssertsShape ==
    Called("TdnnAffine") =>
        LET shape == call.inputs
            self == module.self
            tot_context == self.right_context - self.left_context + 1
            rejected ==
                \/ Len(shape) # 3
                \/ shape[2] # module.args.input_dim
                \/ (IF module.args.pad
                    THEN shape[3] - self.left_context + self.right_context
                    ELSE shape[3]) < tot_context
        IN  /\ self.tot_context = tot_context
            /\ rejected => call.status = "AssertionError" /\ call.outputs = None
            /\ ~rejected => call.status = "ok" /\ call.outputs # None

\* C1 witness: an unpadded 3-dimensional input of the right frame dimension
\* and at least one frame was rejected for having fewer frames than tot_context
C1_Witness ==
    /\ Called("TdnnAffine")
    /\ call.status = "AssertionError"
    /\ Len(call.inputs) = 3
    /\ call.inputs[2] = module.self.input_dim
    /\ ~module.self.pad
    /\ call.inputs[3] > 0

\* C2: a context list with some adjacent pair context[i] >= context[i+1]
\* aborts the construction before weight, bias or mask exist; a strictly
\* increasing non-empty context list lets the construction complete.
C2_ContextChecked ==
    module.class = "TdnnAffine" =>
        LET context == module.args.context
            unsorted == \E i \in 1 .. Len(context) - 1 : context[i] >= context[i + 1]
        IN  /\ unsorted => /\ module.status = "SystemExit"
                           /\ DOMAIN module.self \cap {"weight", "bias", "mask"} = {}
            /\ (~unsorted /\ Len(context) > 0) =>
                           /\ module.status = "constructed"
                           /\ {"weight", "bias", "mask"} \subseteq DOMAIN module.self

\* C2 witness: a context list that is sorted but repeats a value was refused
C2_Witness ==
    /\ module.class = "TdnnAffine"
    /\ module.status = "SystemExit"
    /\ Len(module.args.context) = 2
    /\ module.args.context[1] = module.args.context[2]

\* C3: with context [0] the layer is a linear layer: left_context =
\* right_context = 0, tot_context = 1 (kernel size 1), mask is None, padding
\* adds no frames for either value of pad, and with subsampling_factor 1 the
\* output has as many frames as the input, output frame t reading input
\* frame t only.
C3_ContextZeroIsLinear ==
    (module.class = "TdnnAffine" /\ module.args.context = <<0>>) =>
        /\ module.status = "constructed"
        /\ module.self.left_context = 0
        /\ module.self.right_context = 0
        /\ module.self.tot_context = 1
        /\ module.self.weight.shape = <<module.args.output_dim, module.args.input_dim, 1>>
        /\ module.self.mask = None
        /\ \A shape \in Shapes3 : F_pad(module.self, shape) = shape
        /\ (call.status = "ok" /\ module.args.subsampling_factor = 1) =>
              /\ call.outputs.shape[3] = call.inputs[3]
              /\ DOMAIN call.outputs.field = 0 .. call.inputs[3] - 1
              /\ \A t \in DOMAIN call.outputs.field : call.outputs.field[t] = {t}

\* C3 witness: a padding layer of context [0] and subsampling_factor 1 has
\* returned an output for an input of several frames
C3_Witness ==
    /\ Called("TdnnAffine")
    /\ module.args.context = <<0>>
    /\ module.args.subsampling_factor = 1
    /\ module.args.pad
    /\ call.status = "ok"
    /\ call.inputs[3] >= 2

\* C4: TdnnfBlock.forward, given a 3-dimensional input whose dimension 1 is
\* the constructor's input_dim, passes its assertions and returns a tensor
\* of output_dim channels.
C4_TdnnfForwardReturns ==
    (/\ Called("TdnnfBlock")
     /\ Len(call.inputs) = 3
     /\ call.inputs[2] = module.args.input_dim) =>
        /\ call.status = "ok"
        /\ call.outputs.shape[2] = module.args.output_dim

\* C5: ContextDropout.forward, given a 3-dimensional input, returns a tensor
\* of the same shape.
C5_ContextDropoutReturns ==
    (Called("ContextDropout") /\ Len(call.inputs) = 3) =>
        /\ call.status = "ok"
        /\ call.outputs.shape = call.inputs

\* C6: get_output_dim() is 2 * input_dim with stddev and input_dim without,
\* and is the size of dimension 1 of what forward returns; forward returns
\* [samples, output_dim, 1] for a 3-dimensional input of input_dim channels
\* and at least one frame, the means of the channels first and the standard
\* deviations after them; an input that is not 3-dimensional or has another
\* channel count fails an assertion.
C6_PoolingOutputDim ==
    module.class = "StatisticsPooling" =>
        LET a == module.args
            output_dim == get_output_dim(module.self)
            inputs == call.inputs
            rejected == Len(inputs.shape) # 3 \/ inputs.shape[2] # a.input_dim
        IN  /\ output_dim = IF a.stddev THEN 2 * a.input_dim ELSE a.input_dim
            /\ call.status = "ok" => call.outputs.shape[2] = output_dim
            /\ (call.status # "none" /\ rejected) =>
                  call.status = "AssertionError" /\ call.outputs = None
            /\ (call.status # "none" /\ ~rejected /\ inputs.shape[3] >= 1) =>
                  /\ call.status = "ok"
                  /\ call.outputs.shape = <<inputs.shape[1], output_dim, 1>>
                  /\ \A s \in 0 .. inputs.shape[1] - 1 :
                        /\ DOMAIN call.outputs.data[s] = 0 .. output_dim - 1
                        /\ \A c \in 0 .. a.input_dim - 1 :
                              /\ call.outputs.data[s][c].op = "mean"
                              /\ call.outputs.data[s][c].num =
                                    SumSeq([i \in 1 .. inputs.shape[3] |->
                                              inputs.data[(s * a.input_dim + c)
                                                          * inputs.shape[3] + i]])
                              /\ call.outputs.data[s][c].den = inputs.shape[3]
                              /\ a.stddev => call.outputs.data[s][a.input_dim + c].op = "sqrt"

\* C6 witness: a layer without stddev has pooled an input of one sample, two
\* frames and its input_dim channels
C6_Witness ==
    /\ Called("StatisticsPooling")
    /\ ~module.args.stddev
    /\ call.status = "ok"
    /\ call.inputs.shape[1] = 1
    /\ call.inputs.shape[3] = 2

====
